---- MODULE Spec2Model ----
(***************************************************************************)
(* hsdbi: Repository classes over a relational store (SQLAlchemy session)  *)
(* and a document store (pymongo collection).                              *)
(*                                                                         *)
(* One instance is modelled at a time.  `kind` says which class was        *)
(* constructed; `db`/`session` are the relational table and the SQLAlchemy *)
(* session of an SQLRepository; `coll` is the collection of a              *)
(* MongoRepository; `last` is the call that was made last, with its        *)
(* arguments and its outcome (a returned value or a raised exception).     *)
(*                                                                         *)
(* `self` holds the attributes __init__ keeps (_connection_string and      *)
(* _session, a session by its identity); `created` counts the sessions or  *)
(* connections the instance has created; `fsid` is the identity of the     *)
(* session of the facade the repository is attached to (0: no facade);     *)
(* `entered` says whether the instance is inside a with block; `calls` are *)
(* the methods the last step invoked on the instance; `connected` says     *)
(* whether the MongoClient holds open connections; `held` is the document  *)
(* the caller keeps from its last get (a dict that update changes in       *)
(* place), None when it keeps none.                                        *)
(***************************************************************************)
EXTENDS Integers, Sequences, FiniteSets, TLC

VARIABLES kind, db, session, created, coll, oids, last,
          self, fsid, entered, calls, connected, held

vars == <<kind, db, session, created, coll, oids, last,
          self, fsid, entered, calls, connected, held>>

(***************************************************************************)
(* Bounds of the model.                                                    *)
(***************************************************************************)
MaxPending == 1     \* objects pending in the session (added, not flushed)
MaxItems == 2       \* length of a list handed to add / delete
MaxDocs == 3        \* documents in the collection
MaxOids == 1        \* ObjectIds the driver generates
MaxSessions == 2    \* sessions or connections one instance creates

(***************************************************************************)
(* Values.  A string is a sequence of characters.  DQ is the double quote  *)
(* and BSL the backslash, the two characters that matter to the string     *)
(* literal SQLRepository builds and evaluates for every filter value.      *)
(***************************************************************************)
DQ == "\""
BSL == "\\"
BEL == "BEL"        \* the character "\a" denotes in a Python literal

Keys == {<<"A">>, <<BSL, BSL>>}
Names == {<<"a">>, <<"d">>}
OtherVals == {<<DQ>>}
KeyOrder == <<(<<"A">>), (<<BSL, BSL>>)>>

Attrs == {"abbr", "name"}
PrimaryKeys == <<"abbr">>
ClassType == "Foo"
CollectionName == "foo"

EmptyMap == [x \in {} |-> x]

(***************************************************************************)
(* eval('"%s"' % value): the Python string literal(s) the text denotes.    *)
(* The text is the value between two double quotes.  A backslash escapes   *)
(* the next character; an unescaped double quote ends the literal, and     *)
(* what follows must again be string literals (adjacent literals are       *)
(* concatenated); three double quotes open a triple-quoted literal.        *)
(* Anything else is a SyntaxError ([ok |-> FALSE]).                        *)
(***************************************************************************)
Unescape(c) ==
    IF c = DQ THEN <<DQ>>
    ELSE IF c = BSL THEN <<BSL>>
    ELSE IF c = "a" THEN <<BEL>>
    ELSE <<BSL, c>>             \* an unknown escape stays as written

RECURSIVE ScanLiteral(_, _, _)
ScanLiteral(t, i, acc) ==
    IF i > Len(t) THEN [ok |-> FALSE]
    ELSE IF t[i] = DQ THEN [ok |-> TRUE, val |-> acc, next |-> i + 1]
    ELSE IF t[i] = BSL
         THEN IF i = Len(t) THEN [ok |-> FALSE]
              ELSE ScanLiteral(t, i + 2, acc \o Unescape(t[i + 1]))
         ELSE ScanLiteral(t, i + 1, Append(acc, t[i]))

RECURSIVE ScanTriple(_, _, _)
ScanTriple(t, i, acc) ==
    IF i > Len(t) THEN [ok |-> FALSE]
    ELSE IF i + 2 <= Len(t) /\ t[i] = DQ /\ t[i + 1] = DQ /\ t[i + 2] = DQ
         THEN [ok |-> TRUE, val |-> acc, next |-> i + 3]
    ELSE IF t[i] = BSL
         THEN IF i = Len(t) THEN [ok |-> FALSE]
              ELSE ScanTriple(t, i + 2, acc \o Unescape(t[i + 1]))
         ELSE ScanTriple(t, i + 1, Append(acc, t[i]))

RECURSIVE ParseLiterals(_, _, _)
ParseLiterals(t, i, acc) ==
    IF i > Len(t) THEN [ok |-> TRUE, val |-> acc]
    ELSE IF t[i] # DQ THEN [ok |-> FALSE]
    ELSE LET triple == i + 2 <= Len(t) /\ t[i + 1] = DQ /\ t[i + 2] = DQ
             r == IF triple THEN ScanTriple(t, i + 3, <<>>)
                  ELSE ScanLiteral(t, i + 1, <<>>)
         IN  IF r.ok THEN ParseLiterals(t, r.next, acc \o r.val)
             ELSE [ok |-> FALSE]

EvalLiteral(value) == ParseLiterals(<<DQ>> \o value \o <<DQ>>, 1, <<>>)

(***************************************************************************)
(* Python values the calls return or raise.                                *)
(***************************************************************************)
None == [kind |-> "none"]
True == [kind |-> "bool", v |-> TRUE]
False == [kind |-> "bool", v |-> FALSE]
Raise(type) == [kind |-> "raise", type |-> type]
Returned(r) == r.kind # "raise"

(* A NotFoundError that loses the filters of the failing call. *)
NotFoundError_without_pk(pk, table) ==
    [kind |-> "raise", type |-> "NotFoundError", pk |-> EmptyMap, table |-> table]

(* errors.NotFoundError(pk, table): keeps both arguments as attributes. *)
NotFoundError(pk, table) ==
    [kind |-> "raise", type |-> "NotFoundError", pk |-> pk, table |-> table]

(* A projection argument: None, a list of attribute names, or (by mistake) *)
(* a string, whose items are its characters.  Python truth: None, [] and   *)
(* "" are false.                                                           *)
NoProjection == [t |-> "none", attrs |-> <<>>]
ProjList(attrs) == [t |-> "list", attrs |-> attrs]
ProjStr(chars) == [t |-> "str", attrs |-> chars]
Truthy(projection) == projection.attrs # <<>>

(***************************************************************************)
(* The relational store.  A table is a set of rows [abbr, name]; abbr is   *)
(* the primary key.  A query returns rows in primary-key order.            *)
(***************************************************************************)
Row(k, n) == [abbr |-> k, name |-> n]
Rows == {Row(<<"A">>, <<"a">>), Row(<<"A">>, <<"d">>), Row(<<BSL, BSL>>, <<"d">>)}
HasKey(t, k) == \E r \in t : r.abbr = k
RowOf(t, k) == CHOOSE r \in t : r.abbr = k
RowSeq(t) ==
    LET ks == SelectSeq(KeyOrder, LAMBDA k : HasKey(t, k))
    IN  [i \in 1..Len(ks) |-> RowOf(t, ks[i])]

(***************************************************************************)
(* The SQLAlchemy session (sessionmaker defaults: autoflush, no            *)
(* autocommit).  txn: the table as the open transaction sees it; new: the  *)
(* pending objects, in the order they were added; deleted: the keys of the *)
(* persistent objects marked for deletion; active: FALSE once a flush has  *)
(* failed and rolled the transaction back (every later statement raises    *)
(* until the session is closed).                                           *)
(***************************************************************************)
create_sql_session(table) ==
    [txn |-> table, new |-> <<>>, deleted |-> {}, active |-> TRUE]

NoSession == [txn |-> {}, new |-> <<>>, deleted |-> {}, active |-> FALSE]

(* The INSERTs of a flush, in add order.  A pending object whose key is    *)
(* that of a row marked for deletion replaces the row (row switch); one    *)
(* whose key is that of any other row fails the flush.                     *)
RECURSIVE InsertPending(_, _, _)
InsertPending(t, del, pending) ==
    IF pending = <<>> THEN [ok |-> TRUE, txn |-> t, deleted |-> del]
    ELSE LET o == Head(pending)
         IN  IF HasKey(t, o.abbr)
             THEN IF o.abbr \in del
                  THEN InsertPending((t \ {RowOf(t, o.abbr)}) \cup {o},
                                     del \ {o.abbr}, Tail(pending))
                  ELSE [ok |-> FALSE, txn |-> t, deleted |-> del]
             ELSE InsertPending(t \cup {o}, del, Tail(pending))

(* session.flush(), as every query runs it first (autoflush). *)
Flush(table, s) ==
    IF ~s.active THEN [err |-> "InvalidRequestError", session |-> s]
    ELSE LET ins == InsertPending(s.txn, s.deleted, s.new)
         IN  IF ins.ok
             THEN [err |-> "",
                   session |-> [txn |-> {r \in ins.txn : r.abbr \notin ins.deleted},
                                new |-> <<>>, deleted |-> {}, active |-> TRUE]]
             ELSE [err |-> "IntegrityError",
                   session |-> [txn |-> table, new |-> <<>>, deleted |-> {},
                                active |-> FALSE]]

(* session.close(): rolls back what was not committed, forgets every object. *)
SessionClose(table, s) == create_sql_session(table)

(* session.delete(item): only a persistent object can be marked. *)
SessionDelete(s, item) ==
    IF item.persistent
    THEN [err |-> "", session |-> [s EXCEPT !.deleted = @ \cup {item.abbr}]]
    ELSE [err |-> "InvalidRequestError", session |-> s]

(***************************************************************************)
(* SQLRepository.  Every operator returns [ret, session]: the value the    *)
(* call returns or the exception it raises, and the session afterwards.    *)
(* tupleOk: whether Query.with_entities accepts the tuple that project     *)
(* hands it for two or more attributes (it depends on the SQLAlchemy       *)
(* release; with one attribute project hands it the attribute itself).     *)
(***************************************************************************)

(* query.filter(eval('module.Class.attr == "%s"' % value)) for every kwarg. *)
FilterRaises(kwargs) == \E a \in DOMAIN kwargs : ~EvalLiteral(kwargs[a]).ok
FilterMatches(row, kwargs) ==
    \A a \in DOMAIN kwargs : row[a] = EvalLiteral(kwargs[a]).val

project(projection, tupleOk) ==
    IF projection.t # "list" THEN [err |-> "ValueError", entities |-> <<>>]
    ELSE IF Len(projection.attrs) > 1 /\ ~tupleOk
         THEN [err |-> "InvalidRequestError", entities |-> <<>>]
         ELSE [err |-> "", entities |-> projection.attrs]

(* `if projection: query = self.project(query, projection)` *)
Projected(projection, tupleOk) ==
    IF Truthy(projection) THEN project(projection, tupleOk)
    ELSE [err |-> "", entities |-> <<>>]

(* The rows a query yields: mapped objects, or tuples under with_entities. *)
Entity(row, entities) ==
    IF entities = <<>> THEN row
    ELSE [i \in 1..Len(entities) |-> row[entities[i]]]

RunQuery(t, kwargs, entities) ==
    LET hits == SelectSeq(RowSeq(t), LAMBDA r : FilterMatches(r, kwargs))
    IN  [i \in 1..Len(hits) |-> Entity(hits[i], entities)]

SQLRepository_search(table, s, projection, kwargs, tupleOk) ==
    IF FilterRaises(kwargs) THEN [ret |-> Raise("SyntaxError"), session |-> s]
    ELSE LET p == Projected(projection, tupleOk)
             f == Flush(table, s)
         IN  IF p.err # "" THEN [ret |-> Raise(p.err), session |-> s]
             ELSE IF f.err # "" THEN [ret |-> Raise(f.err), session |-> f.session]
             ELSE [ret |-> [kind |-> "list",
                            items |-> RunQuery(f.session.txn, kwargs, p.entities)],
                   session |-> f.session]

(* An all that ignores its projection. *)
SQLRepository_all_unprojected(table, s, projection, tupleOk) ==
    LET f == Flush(table, s)
    IN  IF f.err # "" THEN [ret |-> Raise(f.err), session |-> f.session]
        ELSE [ret |-> [kind |-> "list",
                       items |-> RunQuery(f.session.txn, EmptyMap, <<>>)],
              session |-> f.session]

SQLRepository_all(table, s, projection, tupleOk) ==
    LET p == Projected(projection, tupleOk)
        f == Flush(table, s)
    IN  IF p.err # "" THEN [ret |-> Raise(p.err), session |-> s]
        ELSE IF f.err # "" THEN [ret |-> Raise(f.err), session |-> f.session]
        ELSE [ret |-> [kind |-> "list",
                       items |-> RunQuery(f.session.txn, EmptyMap, p.entities)],
              session |-> f.session]

(* Repository.exists: len(list(search with the same kwargs)) > 0 *)
SQLRepository_exists(table, s, kwargs) ==
    LET r == SQLRepository_search(table, s, NoProjection, kwargs, TRUE)
    IN  IF Returned(r.ret)
        THEN [ret |-> [kind |-> "bool", v |-> Len(r.ret.items) > 0],
              session |-> r.session]
        ELSE r

(* A count of the committed table, blind to what the session changed. *)
SQLRepository_count_committed(table, s) ==
    LET f == Flush(table, s)
    IN  IF f.err # "" THEN [ret |-> Raise(f.err), session |-> f.session]
        ELSE [ret |-> [kind |-> "int", v |-> Cardinality(table)],
              session |-> f.session]

(* func.count(<first primary key column>): the rows whose key is not NULL. *)
SQLRepository_count(table, s) ==
    LET f == Flush(table, s)
    IN  IF f.err # "" THEN [ret |-> Raise(f.err), session |-> f.session]
        ELSE [ret |-> [kind |-> "int",
                       v |-> Cardinality({r \in f.session.txn :
                                             r[PrimaryKeys[1]] # <<>>})],
              session |-> f.session]

MissingPrimaryKey(kwargs) ==
    \E i \in 1..Len(PrimaryKeys) : PrimaryKeys[i] \notin DOMAIN kwargs


(* A get that builds and runs its query (autoflush) before it looks for    *)
(* the primary keys.                                                       *)
SQLRepository_get_late_check(table, s, expect, projection, kwargs, tupleOk) ==
    LET p == Projected(projection, tupleOk)
        f == Flush(table, s)
        rows == RunQuery(f.session.txn, kwargs, p.entities)
    IN  IF FilterRaises(kwargs) THEN [ret |-> Raise("SyntaxError"), session |-> s]
        ELSE IF p.err # "" THEN [ret |-> Raise(p.err), session |-> s]
        ELSE IF f.err # "" THEN [ret |-> Raise(f.err), session |-> f.session]
        ELSE IF MissingPrimaryKey(kwargs)
             THEN [ret |-> Raise("TypeError"), session |-> f.session]
        ELSE IF Len(rows) > 1
             THEN [ret |-> Raise("MultipleResultsFound"), session |-> f.session]
        ELSE IF rows = <<>> /\ expect
             THEN [ret |-> NotFoundError(kwargs, ClassType), session |-> f.session]
        ELSE IF Truthy(projection)
             THEN IF rows = <<>>
                  THEN [ret |-> Raise("TypeError"), session |-> f.session]
                  ELSE [ret |-> [kind |-> "scalar", v |-> rows[1][1]],
                        session |-> f.session]
        ELSE IF rows = <<>> THEN [ret |-> None, session |-> f.session]
        ELSE [ret |-> [kind |-> "obj", row |-> rows[1]], session |-> f.session]
SQLRepository_get(table, s, expect, projection, kwargs, tupleOk) ==
    IF MissingPrimaryKey(kwargs) THEN [ret |-> Raise("TypeError"), session |-> s]
    ELSE IF FilterRaises(kwargs) THEN [ret |-> Raise("SyntaxError"), session |-> s]
    ELSE LET p == Projected(projection, tupleOk)
             f == Flush(table, s)
             rows == RunQuery(f.session.txn, kwargs, p.entities)
         IN  IF p.err # "" THEN [ret |-> Raise(p.err), session |-> s]
             ELSE IF f.err # "" THEN [ret |-> Raise(f.err), session |-> f.session]
             ELSE IF Len(rows) > 1
                  THEN [ret |-> Raise("MultipleResultsFound"), session |-> f.session]
             ELSE IF rows = <<>> /\ expect
                  THEN [ret |-> NotFoundError(kwargs, ClassType),
                        session |-> f.session]
             ELSE IF Truthy(projection)
                  THEN IF rows = <<>>      \* None[0]
                       THEN [ret |-> Raise("TypeError"), session |-> f.session]
                       ELSE [ret |-> [kind |-> "scalar", v |-> rows[1][1]],
                             session |-> f.session]
             ELSE IF rows = <<>> THEN [ret |-> None, session |-> f.session]
             ELSE [ret |-> [kind |-> "obj", row |-> rows[1]], session |-> f.session]

(* session.add for the item or for every item of the list. *)
RECURSIVE AddEach(_, _)
AddEach(s, items) ==
    IF items = <<>> THEN s
    ELSE AddEach([s EXCEPT !.new = Append(@, Head(items))], Tail(items))

SQLRepository_add(s, items) ==
    [ret |-> None,
     session |-> IF items.t = "list" THEN AddEach(s, items.objs)
                 ELSE AddEach(s, <<items.objs[1]>>)]

(* session.delete for every item of the list, up to the first that raises. *)
RECURSIVE DeleteEach(_, _)
DeleteEach(s, items) ==
    IF items = <<>> THEN [err |-> "", session |-> s]
    ELSE LET d == SessionDelete(s, Head(items))
         IN  IF d.err # "" THEN d ELSE DeleteEach(d.session, Tail(items))

(* An items argument: None, one object, or a list of objects. *)
NoItems == [t |-> "none", objs |-> <<>>]
OneItem(o) == [t |-> "one", objs |-> <<o>>]
ItemList(os) == [t |-> "list", objs |-> os]
ItemsTruthy(items) ==
    IF items.t = "one" THEN items.objs[1] # EmptyMap ELSE items.objs # <<>>



(* A delete that looks for the primary keys in the keyword filters even    *)
(* when items are given.                                                   *)
SQLRepository_delete_validating(table, s, items, kwargs) ==
    IF ~ItemsTruthy(items) /\ kwargs = EmptyMap
    THEN [ret |-> Raise("ValueError"), session |-> s]
    ELSE IF kwargs # EmptyMap /\ MissingPrimaryKey(kwargs)
    THEN [ret |-> Raise("TypeError"), session |-> s]
    ELSE IF ItemsTruthy(items)
    THEN LET d == DeleteEach(s, items.objs)
         IN  [ret |-> IF d.err # "" THEN Raise(d.err) ELSE None,
              session |-> d.session]
    ELSE LET g == SQLRepository_get(table, s, TRUE, NoProjection, kwargs, TRUE)
         IN  IF ~Returned(g.ret) THEN g
             ELSE LET d == SessionDelete(g.session,
                                 [abbr |-> g.ret.row.abbr, persistent |-> TRUE])
                  IN  [ret |-> None, session |-> d.session]
(* A delete that only rejects items=None, not an empty list. *)
SQLRepository_delete_unless_none(table, s, items, kwargs) ==
    IF items.t = "none" /\ kwargs = EmptyMap
    THEN [ret |-> Raise("ValueError"), session |-> s]
    ELSE IF ItemsTruthy(items)
    THEN LET d == DeleteEach(s, items.objs)
         IN  [ret |-> IF d.err # "" THEN Raise(d.err) ELSE None,
              session |-> d.session]
    ELSE IF MissingPrimaryKey(kwargs)
    THEN [ret |-> Raise("TypeError"), session |-> s]
    ELSE [ret |-> None, session |-> s]
SQLRepository_delete(table, s, items, kwargs) ==
    IF ~ItemsTruthy(items) /\ kwargs = EmptyMap
    THEN [ret |-> Raise("ValueError"), session |-> s]
    ELSE IF ItemsTruthy(items)
    THEN LET d == DeleteEach(s, items.objs)
         IN  [ret |-> IF d.err # "" THEN Raise(d.err) ELSE None,
              session |-> d.session]
    ELSE IF MissingPrimaryKey(kwargs)
    THEN [ret |-> Raise("TypeError"), session |-> s]
    ELSE LET g == SQLRepository_get(table, s, TRUE, NoProjection, kwargs, TRUE)
         IN  IF ~Returned(g.ret) THEN g
             ELSE LET d == SessionDelete(g.session,
                                 [abbr |-> g.ret.row.abbr, persistent |-> TRUE])
                  IN  [ret |-> None, session |-> d.session]

(* session.query(cls).delete(): autoflush, then DELETE of every row. *)
SQLRepository_delete_all_records(table, s) ==
    LET f == Flush(table, s)
    IN  IF f.err # "" THEN [ret |-> Raise(f.err), session |-> f.session]
        ELSE [ret |-> [kind |-> "int", v |-> Cardinality(f.session.txn)],
              session |-> [f.session EXCEPT !.txn = {}]]

(* session.commit(): flush, then the transaction's rows become the table. *)
SQLRepository_commit(table, s) ==
    LET f == Flush(table, s)
    IN  IF f.err # ""
        THEN [ret |-> Raise(f.err), session |-> f.session, db |-> table]
        ELSE [ret |-> None, session |-> f.session, db |-> f.session.txn]

SQLRepository_dispose(table, s) ==
    [ret |-> None, session |-> SessionClose(table, s)]

(* SQLRepository.__init__: connection_string and session are optional.     *)
(* A session argument is a handle on a session (its identity); the         *)
(* caller's own session has identity 0, the n-th session the instance      *)
(* creates has identity n.  s is the state of the session the handle names *)
(* and n the number of sessions the instance has created so far.           *)
StrTruthy(x) == x.kind = "str" /\ x.v # ""
Str(v) == [kind |-> "str", v |-> v]
SessionHandle(id) == [kind |-> "session", id |-> id]
CallerSession == SessionHandle(0)
NoSelf == [connection_string |-> None, session |-> None]

(* A constructor that falls back to a session of its own. *)
SQLRepository_init_default_session(table, s, n, connection_string, session_arg) ==
    IF StrTruthy(connection_string) \/ session_arg = None
    THEN [ret |-> None, session |-> create_sql_session(table), created |-> n + 1,
          self |-> [connection_string |-> connection_string,
                    session |-> SessionHandle(n + 1)]]
    ELSE [ret |-> None, session |-> s, created |-> n,
          self |-> [connection_string |-> connection_string,
                    session |-> session_arg]]

SQLRepository_init(table, s, n, connection_string, session_arg) ==
    IF StrTruthy(connection_string)
    THEN [ret |-> None, session |-> create_sql_session(table), created |-> n + 1,
          self |-> [connection_string |-> connection_string,
                    session |-> SessionHandle(n + 1)]]
    ELSE IF session_arg # None
    THEN [ret |-> None, session |-> s, created |-> n,
          self |-> [connection_string |-> connection_string,
                    session |-> session_arg]]
    ELSE [ret |-> Raise("ValueError"), session |-> NoSession, created |-> n,
          self |-> NoSelf]

(* SQLRepository.__enter__: __init__ again, with the attributes kept. *)
SQLRepository_enter(table, s, n, me) ==
    SQLRepository_init(table, s, n, me.connection_string, me.session)

(* Repository.__exit__: self.dispose(), whatever the body did; returns     *)
(* None, so an exception of the body propagates.                           *)

(* An __exit__ that leaves the session alone when the body raised. *)
SQLRepository_exit_unless_raised(table, s, exc_type) ==
    IF exc_type = None
    THEN [calls |-> <<"__exit__", "dispose">>,
          ret |-> SQLRepository_dispose(table, s).ret,
          session |-> SQLRepository_dispose(table, s).session]
    ELSE [calls |-> <<"__exit__">>, ret |-> None, session |-> s]
SQLRepository_exit(table, s, exc_type) ==
    [calls |-> <<"__exit__", "dispose">>,
     ret |-> SQLRepository_dispose(table, s).ret,
     session |-> SQLRepository_dispose(table, s).session]

(* SQLFacade.__init__: a session of the facade's own. *)
LTEST_CONN_STR == Str("mysql://ltest")
SQLFacade_init(table, n, connection_string) ==
    [session |-> create_sql_session(table), created |-> n + 1,
     handle |-> SessionHandle(n + 1)]

(* TestSQLFacade.__init__: SQLFacade.__init__, then                        *)
(* self.foos = SQLRepository(..., session=self.session).                   *)
TestSQLFacade_init(table, n, connection_string) ==
    LET f == SQLFacade_init(table, n, connection_string)
        foos == SQLRepository_init(table, f.session, 0, None, f.handle)
    IN  [ret |-> foos.ret, session |-> foos.session, created |-> f.created,
         fsid |-> f.handle.id, self |-> foos.self]

(* SQLFacade.__enter__: self.__init__(self._connection_string), which is   *)
(* the __init__ of the subclass.                                           *)

(* An __enter__ that runs SQLFacade.__init__ only, not the constructor of  *)
(* the subclass: foos stays bound to the session before this one.          *)
SQLFacade_enter_base_only(table, n, connection_string) ==
    LET f == SQLFacade_init(table, n, connection_string)
    IN  [ret |-> None, session |-> f.session, created |-> f.created,
         fsid |-> f.handle.id,
         self |-> [connection_string |-> None, session |-> SessionHandle(n)]]
SQLFacade_enter(table, n, connection_string) ==
    TestSQLFacade_init(table, n, connection_string)

(* RepositoryFacade.__exit__: self.dispose(); SQLFacade.dispose closes the *)
(* session.                                                                *)
SQLFacade_dispose(table, s) == [ret |-> None, session |-> SessionClose(table, s)]
SQLFacade_exit(table, s, exc_type) ==
    [calls |-> <<"__exit__", "dispose">>,
     ret |-> SQLFacade_dispose(table, s).ret,
     session |-> SQLFacade_dispose(table, s).session]

(* SQLFacade.commit: session.commit(). *)
SQLFacade_commit(table, s) == SQLRepository_commit(table, s)

(***************************************************************************)
(* The document store.  A collection is the sequence of its documents in   *)
(* insertion order; a document is a function from field names to values,   *)
(* and "_id" is unique.                                                    *)
(***************************************************************************)
Oid(n) == [i \in 1..(n + 1) |-> IF i = 1 THEN "ObjectId" ELSE "+"]

HasId(c, id) == \E i \in 1..Len(c) : c[i]["_id"] = id

(* insert_one: gives the document an ObjectId when it has no _id. *)
insert_one(c, n, doc) ==
    LET d == IF "_id" \in DOMAIN doc THEN doc ELSE doc @@ ("_id" :> Oid(n + 1))
        m == IF "_id" \in DOMAIN doc THEN n ELSE n + 1
    IN  IF HasId(c, d["_id"])
        THEN [err |-> "DuplicateKeyError", coll |-> c, oids |-> m]
        ELSE [err |-> "", coll |-> Append(c, d), oids |-> m]

DocMatches(d, filter) ==
    \A f \in DOMAIN filter : f \in DOMAIN d /\ d[f] = filter[f]

(* projection_dict: {attr: 1} for every item of the projection. *)
projection_dict(projection) ==
    IF Truthy(projection)
    THEN [f \in {projection.attrs[i] : i \in 1..Len(projection.attrs)} |-> 1]
    ELSE EmptyMap

(* An inclusion projection keeps the named fields, and _id. *)
Included(d, pd) ==
    [f \in (DOMAIN d) \cap (DOMAIN pd \cup {"_id"}) |-> d[f]]

find(c, filter, projection) ==
    LET hits == SelectSeq(c, LAMBDA d : DocMatches(d, filter))
    IN  IF Truthy(projection)
        THEN [i \in 1..Len(hits) |-> Included(hits[i], projection_dict(projection))]
        ELSE hits

(* delete_one: removes the first document the filter matches. *)
delete_one(c, filter) ==
    IF \E i \in 1..Len(c) : DocMatches(c[i], filter)
    THEN LET i == CHOOSE j \in 1..Len(c) :
                     /\ DocMatches(c[j], filter)
                     /\ \A h \in 1..(j - 1) : ~DocMatches(c[h], filter)
         IN  SubSeq(c, 1, i - 1) \o SubSeq(c, i + 1, Len(c))
    ELSE c

(***************************************************************************)
(* MongoRepository.  Every operator returns [ret, coll, oids].             *)
(***************************************************************************)
RECURSIVE InsertEach(_, _, _)
InsertEach(c, n, docs) ==
    IF docs = <<>> THEN [err |-> "", coll |-> c, oids |-> n]
    ELSE LET r == insert_one(c, n, Head(docs))
         IN  IF r.err # "" THEN r ELSE InsertEach(r.coll, r.oids, Tail(docs))



(* An add that inserts a list all or nothing. *)
MongoRepository_add_atomic(c, n, items, kwargs) ==
    LET r == IF ItemsTruthy(items) THEN InsertEach(c, n, items.objs)
             ELSE insert_one(c, n, kwargs)
    IN  IF ~ItemsTruthy(items) /\ kwargs = EmptyMap
        THEN [ret |-> Raise("ValueError"), coll |-> c, oids |-> n]
        ELSE IF r.err # "" THEN [ret |-> Raise(r.err), coll |-> c, oids |-> n]
        ELSE [ret |-> None, coll |-> r.coll, oids |-> r.oids]
(* An add that inserts the keyword fields even when there are none. *)
MongoRepository_add_unchecked(c, n, items, kwargs) ==
    LET r == IF ItemsTruthy(items) THEN InsertEach(c, n, items.objs)
             ELSE insert_one(c, n, kwargs)
    IN  [ret |-> IF r.err # "" THEN Raise(r.err) ELSE None,
         coll |-> r.coll, oids |-> r.oids]
MongoRepository_add(c, n, items, kwargs) ==
    IF ItemsTruthy(items)
    THEN LET r == InsertEach(c, n, items.objs)
         IN  [ret |-> IF r.err # "" THEN Raise(r.err) ELSE None,
              coll |-> r.coll, oids |-> r.oids]
    ELSE IF kwargs # EmptyMap
    THEN LET r == insert_one(c, n, kwargs)
         IN  [ret |-> IF r.err # "" THEN Raise(r.err) ELSE None,
              coll |-> r.coll, oids |-> r.oids]
    ELSE [ret |-> Raise("ValueError"), coll |-> c, oids |-> n]

MongoRepository_all(c, projection) ==
    [kind |-> "list", items |-> find(c, EmptyMap, projection)]

MongoRepository_search(c, projection, kwargs) ==
    [kind |-> "list", items |-> find(c, kwargs, projection)]

(* An exists that needs two matches. *)
MongoRepository_exists_two(c, kwargs) ==
    [kind |-> "bool",
     v |-> Len(MongoRepository_search(c, NoProjection, kwargs).items) > 1]

MongoRepository_exists(c, kwargs) ==
    [kind |-> "bool",
     v |-> Len(MongoRepository_search(c, NoProjection, kwargs).items) > 0]

(* A commit that closes the client's connection. *)
MongoRepository_commit_closing(c, open) ==
    [ret |-> None, coll |-> c, connected |-> FALSE]

(* commit(): pass.  open is the state of the client's connection. *)
MongoRepository_commit(c, open) ==
    [ret |-> None, coll |-> c, connected |-> open]

MongoRepository_count(c) == [kind |-> "int", v |-> Len(c)]

MongoRepository_get(c, expect, projection, kwargs) ==
    LET found == find(c, kwargs, projection)
    IN  IF found = <<>>
        THEN IF expect THEN NotFoundError(kwargs, CollectionName) ELSE None
        ELSE [kind |-> "doc", doc |-> found[1]]


(* update_one({'_id': id}, {'$set': fields}): sets the fields of the       *)
(* document with that _id, if there is one; nothing is inserted.           *)

(* An update_one that sets the fields in every document (update_many with  *)
(* an empty filter).                                                       *)
update_one_everywhere(c, id, fields) ==
    [i \in 1..Len(c) |-> fields @@ c[i]]
update_one(c, id, fields) ==
    [i \in 1..Len(c) |-> IF c[i]["_id"] = id THEN fields @@ c[i] ELSE c[i]]

(* MongoRepository.update: doc is the caller's dict, which the method      *)
(* changes in place: the result's doc is that dict when the call is over.  *)
(* fails: the driver raises from update_one (the server cannot be reached  *)
(* or rejects the write).                                                  *)
MongoRepository_update(c, doc, fails) ==
    IF "_id" \notin DOMAIN doc
    THEN [ret |-> Raise("KeyError"), coll |-> c, doc |-> doc]
    ELSE LET _id == doc["_id"]
             popped == [f \in DOMAIN doc \ {"_id"} |-> doc[f]]
         IN  IF fails
             THEN [ret |-> Raise("PyMongoError"), coll |-> c, doc |-> popped]
             ELSE [ret |-> None, coll |-> update_one(c, _id, popped),
                   doc |-> popped @@ ("_id" :> _id)]
RECURSIVE DeleteEachDoc(_, _)
DeleteEachDoc(c, docs) ==
    IF docs = <<>> THEN c
    ELSE DeleteEachDoc(delete_one(c, Head(docs)), Tail(docs))

MongoRepository_delete(c, items, kwargs) ==
    IF ~ItemsTruthy(items) /\ kwargs = EmptyMap
    THEN [ret |-> Raise("ValueError"), coll |-> c]
    ELSE IF ItemsTruthy(items)
    THEN [ret |-> None, coll |-> DeleteEachDoc(c, items.objs)]
    ELSE [ret |-> None, coll |-> delete_one(c, kwargs)]

(* collection.drop() *)
MongoRepository_delete_all_records(c) == <<>>

(* get_connection: a new MongoClient.  MongoClient.close() drops its       *)
(* connections; the client opens them again on its next operation.         *)
get_connection(n) == [created |-> n + 1, connected |-> TRUE]
MongoClient_close(open) == FALSE

(* MongoFacade.__init__ / __enter__ (which calls __init__) / dispose. *)
MongoFacade_init(n) == get_connection(n)
MongoFacade_enter(n) == MongoFacade_init(n)
MongoFacade_dispose(open) == MongoClient_close(open)

(* An __exit__ that returns True. *)
MongoFacade_exit_swallowing(open, exc_type) ==
    [calls |-> <<"__exit__", "dispose">>, ret |-> True, connected |-> FALSE]
MongoFacade_exit(open, exc_type) ==
    [calls |-> <<"__exit__", "dispose">>, ret |-> None,
     connected |-> MongoFacade_dispose(open)]

(* MongoRepository.__enter__ calls __init__, which takes the collection    *)
(* from the database it was given; dispose closes that database's client.  *)
MongoRepository_enter(open) == open
MongoRepository_dispose(open) == MongoClient_close(open)
MongoRepository_exit(open, exc_type) ==
    [calls |-> <<"__exit__", "dispose">>, ret |-> None,
     connected |-> MongoRepository_dispose(open)]

(* MongoDbFacade takes the MongoClient it is handed and opens nothing;     *)
(* __enter__ calls __init__ with the same client; it has no dispose, and   *)
(* __exit__ closes the client itself.                                      *)
MongoDbFacade_init(open) == open
MongoDbFacade_enter(open) == MongoDbFacade_init(open)
MongoDbFacade_exit(open, exc_type) ==
    [calls |-> <<"__exit__", "close">>, ret |-> None,
     connected |-> MongoClient_close(open)]

(* The with statement drops the exception of its body when __exit__        *)
(* returns a true value.                                                   *)
Suppresses(ret) == ret \notin {None, False}

(***************************************************************************)
(* The arguments the calls are made with.                                  *)
(***************************************************************************)
(* Keyword filters: none, the key, a name, or both. *)
Kwargs(key) ==
    {EmptyMap, ("name" :> <<"d">>), (key :> <<"A">>) @@ ("name" :> <<"d">>)}
    \cup {(key :> v) : v \in Keys \cup OtherVals}

(* The SQLAlchemy releases differ only where project hands over a tuple:   *)
(* lib says whether with_entities accepts it.                              *)
GetArgs(key) ==
    {[expect |-> e, projection |-> p, kwargs |-> (key :> k), lib |-> TRUE] :
        e \in BOOLEAN, p \in {NoProjection, ProjList(<<"name">>)}, k \in Keys}
    \cup {[expect |-> e, projection |-> ProjList(<<key, "name">>),
           kwargs |-> (key :> <<"A">>), lib |-> l] : e \in BOOLEAN, l \in BOOLEAN}
    \cup {[expect |-> TRUE, projection |-> NoProjection, kwargs |-> kw, lib |-> TRUE] :
            kw \in {EmptyMap, (key :> <<DQ>>), ("name" :> <<"d">>)}}

SearchArgs(key) ==
    {[projection |-> p, kwargs |-> kw, lib |-> TRUE] :
        p \in {NoProjection, ProjList(<<"name">>)},
        kw \in Kwargs(key) \ {(key :> <<"A">>), (key :> <<DQ>>)}}
    \cup {[projection |-> p, kwargs |-> EmptyMap, lib |-> TRUE] :
            p \in {ProjList(<<>>), ProjStr(<<"n", "a", "m", "e">>)}}
    \cup {[projection |-> ProjList(<<key, "name">>), kwargs |-> EmptyMap, lib |-> l] :
            l \in BOOLEAN}
    \cup {[projection |-> NoProjection, kwargs |-> (key :> <<DQ>>), lib |-> TRUE]}

AllArgs(key) ==
    {[projection |-> p, lib |-> TRUE] :
        p \in {NoProjection, ProjList(<<>>), ProjList(<<"name">>),
               ProjList(<<key, "name">>), ProjStr(<<"n", "a", "m", "e">>)}}
    \cup {[projection |-> ProjList(<<key, "name">>), lib |-> FALSE]}

SeqsUpTo(S, n) == UNION {[1..m -> S] : m \in 0..n}

(* The objects a caller can hand to SQLRepository.delete: objects it got   *)
(* from a query of this session (persistent), or an object it made itself. *)
Loaded(s) == {[abbr |-> r.abbr, persistent |-> TRUE] : r \in s.txn}
Made == [abbr |-> <<"A">>, persistent |-> FALSE]

SqlDeleteArgs(s) ==
    {[items |-> NoItems, kwargs |-> kw] : kw \in Kwargs("abbr")}
    \cup {[items |-> OneItem(o), kwargs |-> EmptyMap] : o \in Loaded(s) \cup {Made}}
    \cup {[items |-> ItemList(os), kwargs |-> EmptyMap] :
            os \in SeqsUpTo(Loaded(s), MaxItems)}
    \cup {[items |-> ItemList(<<o, Made>>), kwargs |-> EmptyMap] : o \in Loaded(s)}
    \cup {[items |-> OneItem(o), kwargs |-> kw] :
            o \in {x \in Loaded(s) : x.abbr = <<"A">>},
            kw \in {("abbr" :> <<BSL, BSL>>), ("name" :> <<"d">>)}}

(* The documents a caller can hand to MongoRepository.add. *)
Docs ==
    {("_id" :> r.abbr) @@ ("name" :> r.name) : r \in Rows}
    \cup {("name" :> <<"d">>)}

MongoAddArgs ==
    {[items |-> NoItems, kwargs |-> kw] : kw \in {EmptyMap} \cup Docs}
    \cup {[items |-> OneItem(d), kwargs |-> EmptyMap] : d \in Docs \cup {EmptyMap}}
    \cup {[items |-> ItemList(ds), kwargs |-> EmptyMap] : ds \in SeqsUpTo(Docs, MaxItems)}
    \cup {[items |-> OneItem(d), kwargs |-> ("name" :> <<"d">>)] :
            d \in {("_id" :> <<"A">>) @@ ("name" :> <<"a">>)}}

(* The documents a caller can hand to MongoRepository.delete: documents it *)
(* got from a query, or one it made itself.                                *)
StoredDocs(c) == {c[i] : i \in 1..Len(c)}
MadeDoc == ("name" :> <<"d">>)

MongoDeleteArgs(c) ==
    {[items |-> NoItems, kwargs |-> kw] : kw \in Kwargs("_id")}
    \cup {[items |-> OneItem(d), kwargs |-> EmptyMap] :
            d \in StoredDocs(c) \cup {MadeDoc, EmptyMap}}
    \cup {[items |-> ItemList(ds), kwargs |-> EmptyMap] :
            ds \in SeqsUpTo(StoredDocs(c), MaxItems)}
    \cup {[items |-> OneItem(d), kwargs |-> ("_id" :> <<BSL, BSL>>)] :
            d \in {x \in StoredDocs(c) : x["_id"] = <<"A">>}}


(* MongoRepository.delete of the document the caller holds from its last  *)
(* get, alone or in a list.                                                *)
HeldDeleteArgs(h) ==
    IF h = None THEN {}
    ELSE {[items |-> OneItem(h.doc), kwargs |-> EmptyMap],
          [items |-> ItemList(<<h.doc>>), kwargs |-> EmptyMap]}

(* The dict a caller hands to MongoRepository.update: the one it holds     *)
(* from its last get (own), as it is or with its name set, or a copy of a  *)
(* stored document with its name set.                                      *)
UpdateArgs(c, h) ==
    {[doc |-> d, own |-> TRUE] :
        d \in IF h = None THEN {}
              ELSE {h.doc} \cup {("name" :> n) @@ h.doc : n \in Names}}
    \cup {[doc |-> ("name" :> n) @@ c[i], own |-> FALSE] :
            i \in 1..Len(c), n \in Names}
(* SQLRepository(...) as the tests construct it: with a connection string, *)
(* or (by mistake) with nothing.                                           *)
InitArgs ==
    {[connection_string |-> cs, session |-> None] :
        cs \in {None, Str(""), LTEST_CONN_STR}}

(* SQLRepository(...) with every combination of the two arguments. *)
NewArgs ==
    InitArgs
    \cup {[connection_string |-> cs, session |-> CallerSession] :
            cs \in {None, LTEST_CONN_STR}}

(* The exception the body of a with block ended with, if any. *)
ExcTypes == {None, Str("Exception")}

(* What __enter__ returns: the instance itself. *)
This == [kind |-> "self"]

Call(op, items, kwargs, projection, expect, lib, ret) ==
    [op |-> op, items |-> items, kwargs |-> kwargs, projection |-> projection,
     expect |-> expect, lib |-> lib, ret |-> ret]

NoCall == Call("none", NoItems, EmptyMap, NoProjection, FALSE, TRUE, None)

(***************************************************************************)
(* State machine.                                                          *)
(***************************************************************************)
Init ==
    /\ kind = "none"
    /\ db = {}
    /\ session = NoSession
    /\ created = 0
    /\ coll = <<>>
    /\ oids = 0
    /\ last = NoCall
    /\ self = NoSelf
    /\ fsid = 0
    /\ entered = FALSE
    /\ calls = <<>>
    /\ connected = FALSE
    /\ held = None

(* SQLRepository(...) called with the arguments a, while no instance is    *)
(* alive.  A session handed over is a session the caller has just made.    *)
Construct(a) ==
    LET r == SQLRepository_init(db, create_sql_session(db), 0,
                                a.connection_string, a.session)
    IN  /\ r.created <= MaxSessions
        /\ kind' = IF Returned(r.ret) THEN "sql" ELSE "none"
        /\ session' = r.session
        /\ created' = r.created
        /\ self' = r.self
        /\ fsid' = 0
        /\ entered' = FALSE
        /\ calls' = <<"__init__">>
        /\ last' = Call("init", NoItems,
                        ("connection_string" :> a.connection_string)
                           @@ ("session" :> a.session),
                        NoProjection, FALSE, TRUE, r.ret)
        /\ UNCHANGED <<held, db, coll, oids, connected>>

SqlInit ==
    /\ kind = "none"
    /\ \E a \in InitArgs : Construct(a)

SqlAdd ==
    /\ kind = "sql"
    /\ \E items \in {OneItem(o) : o \in Rows}
                    \cup {ItemList(os) : os \in SeqsUpTo(Rows, MaxItems)} :
         LET r == SQLRepository_add(session, items)
         IN  /\ Len(r.session.new) <= MaxPending
             /\ session' = r.session
             /\ last' = Call("add", items, EmptyMap, NoProjection, FALSE, TRUE, r.ret)
    /\ calls' = <<>>
    /\ UNCHANGED <<held, kind, db, created, coll, oids, self, fsid, entered, connected>>

SqlAll ==
    /\ kind = "sql"
    /\ \E a \in AllArgs("abbr") :
         LET r == SQLRepository_all(db, session, a.projection, a.lib)
         IN  /\ session' = r.session
             /\ last' = Call("all", NoItems, EmptyMap, a.projection, FALSE, a.lib,
                             r.ret)
    /\ calls' = <<>>
    /\ UNCHANGED <<held, kind, db, created, coll, oids, self, fsid, entered, connected>>

SqlCommit ==
    /\ kind = "sql"
    /\ LET r == SQLRepository_commit(db, session)
       IN  /\ session' = r.session
           /\ db' = r.db
           /\ last' = Call("commit", NoItems, EmptyMap, NoProjection, FALSE, TRUE,
                           r.ret)
    /\ calls' = <<>>
    /\ UNCHANGED <<held, kind, created, coll, oids, self, fsid, entered, connected>>

SqlCount ==
    /\ kind = "sql"
    /\ LET r == SQLRepository_count(db, session)
       IN  /\ session' = r.session
           /\ last' = Call("count", NoItems, EmptyMap, NoProjection, FALSE, TRUE,
                           r.ret)
    /\ calls' = <<>>
    /\ UNCHANGED <<held, kind, db, created, coll, oids, self, fsid, entered, connected>>

SqlDelete ==
    /\ kind = "sql"
    /\ \E a \in SqlDeleteArgs(session) :
         LET r == SQLRepository_delete(db, session, a.items, a.kwargs)
         IN  /\ session' = r.session
             /\ last' = Call("delete", a.items, a.kwargs, NoProjection, FALSE, TRUE,
                             r.ret)
    /\ calls' = <<>>
    /\ UNCHANGED <<held, kind, db, created, coll, oids, self, fsid, entered, connected>>

SqlDeleteAllRecords ==
    /\ kind = "sql"
    /\ LET r == SQLRepository_delete_all_records(db, session)
       IN  /\ session' = r.session
           /\ last' = Call("delete_all_records", NoItems, EmptyMap, NoProjection,
                           FALSE, TRUE, r.ret)
    /\ calls' = <<>>
    /\ UNCHANGED <<held, kind, db, created, coll, oids, self, fsid, entered, connected>>

SqlDispose ==
    /\ kind = "sql"
    /\ LET r == SQLRepository_dispose(db, session)
       IN  /\ session' = r.session
           /\ last' = Call("dispose", NoItems, EmptyMap, NoProjection, FALSE, TRUE,
                           r.ret)
    /\ calls' = <<"dispose">>
    /\ UNCHANGED <<held, kind, db, created, coll, oids, self, fsid, entered, connected>>

SqlExists ==
    /\ kind = "sql"
    /\ \E kwargs \in Kwargs("abbr") :
         LET r == SQLRepository_exists(db, session, kwargs)
         IN  /\ session' = r.session
             /\ last' = Call("exists", NoItems, kwargs, NoProjection, FALSE, TRUE,
                             r.ret)
    /\ calls' = <<>>
    /\ UNCHANGED <<held, kind, db, created, coll, oids, self, fsid, entered, connected>>

SqlGet ==
    /\ kind = "sql"
    /\ \E a \in GetArgs("abbr") :
         LET r == SQLRepository_get(db, session, a.expect, a.projection, a.kwargs,
                                    a.lib)
         IN  /\ session' = r.session
             /\ last' = Call("get", NoItems, a.kwargs, a.projection, a.expect, a.lib,
                             r.ret)
    /\ calls' = <<>>
    /\ UNCHANGED <<held, kind, db, created, coll, oids, self, fsid, entered, connected>>

SqlSearch ==
    /\ kind = "sql"
    /\ \E a \in SearchArgs("abbr") :
         LET r == SQLRepository_search(db, session, a.projection, a.kwargs, a.lib)
         IN  /\ session' = r.session
             /\ last' = Call("search", NoItems, a.kwargs, a.projection, FALSE, a.lib,
                             r.ret)
    /\ calls' = <<>>
    /\ UNCHANGED <<held, kind, db, created, coll, oids, self, fsid, entered, connected>>

MongoInit ==
    /\ kind = "none"
    /\ kind' = "mongo"
    /\ connected' = TRUE
    /\ calls' = <<"__init__">>
    /\ last' = Call("init", NoItems, EmptyMap, NoProjection, FALSE, TRUE, None)
    /\ UNCHANGED <<held, db, session, created, coll, oids, self, fsid, entered>>

MongoAdd ==
    /\ kind = "mongo"
    /\ \E a \in MongoAddArgs :
         LET r == MongoRepository_add(coll, oids, a.items, a.kwargs)
         IN  /\ Len(r.coll) <= MaxDocs
             /\ r.oids <= MaxOids
             /\ coll' = r.coll
             /\ oids' = r.oids
             /\ last' = Call("add", a.items, a.kwargs, NoProjection, FALSE, TRUE,
                             r.ret)
    /\ calls' = <<>>
    /\ connected' = TRUE
    /\ UNCHANGED <<held, kind, db, session, created, self, fsid, entered>>

MongoAll ==
    /\ kind = "mongo"
    /\ \E a \in {x \in AllArgs("_id") : x.lib} :
         last' = Call("all", NoItems, EmptyMap, a.projection, FALSE, TRUE,
                      MongoRepository_all(coll, a.projection))
    /\ calls' = <<>>
    /\ connected' = TRUE
    /\ UNCHANGED <<held, kind, db, session, created, coll, oids, self, fsid, entered>>

MongoCommit ==
    /\ kind = "mongo"
    /\ LET r == MongoRepository_commit(coll, connected)
       IN  /\ coll' = r.coll
           /\ connected' = r.connected
           /\ last' = Call("commit", NoItems, EmptyMap, NoProjection, FALSE, TRUE,
                           r.ret)
    /\ calls' = <<>>
    /\ UNCHANGED <<held, kind, db, session, created, oids, self, fsid, entered>>

MongoCount ==
    /\ kind = "mongo"
    /\ last' = Call("count", NoItems, EmptyMap, NoProjection, FALSE, TRUE,
                    MongoRepository_count(coll))
    /\ calls' = <<>>
    /\ connected' = TRUE
    /\ UNCHANGED <<held, kind, db, session, created, coll, oids, self, fsid, entered>>

MongoDelete ==
    /\ kind = "mongo"
    /\ \E a \in MongoDeleteArgs(coll) :
         LET r == MongoRepository_delete(coll, a.items, a.kwargs)
         IN  /\ coll' = r.coll
             /\ last' = Call("delete", a.items, a.kwargs, NoProjection, FALSE, TRUE,
                             r.ret)
    /\ calls' = <<>>
    /\ connected' = TRUE
    /\ UNCHANGED <<held, kind, db, session, created, oids, self, fsid, entered>>

MongoDeleteAllRecords ==
    /\ kind = "mongo"
    /\ coll' = MongoRepository_delete_all_records(coll)
    /\ last' = Call("delete_all_records", NoItems, EmptyMap, NoProjection, FALSE,
                    TRUE, None)
    /\ calls' = <<>>
    /\ connected' = TRUE
    /\ UNCHANGED <<held, kind, db, session, created, oids, self, fsid, entered>>

MongoExists ==
    /\ kind = "mongo"
    /\ \E kwargs \in Kwargs("_id") :
         last' = Call("exists", NoItems, kwargs, NoProjection, FALSE, TRUE,
                      MongoRepository_exists(coll, kwargs))
    /\ calls' = <<>>
    /\ connected' = TRUE
    /\ UNCHANGED <<held, kind, db, session, created, coll, oids, self, fsid, entered>>

MongoGet ==
    /\ kind = "mongo"
    /\ \E a \in {x \in GetArgs("_id") : x.lib} :
         last' = Call("get", NoItems, a.kwargs, a.projection, a.expect, TRUE,
                      MongoRepository_get(coll, a.expect, a.projection, a.kwargs))
    /\ calls' = <<>>
    /\ connected' = TRUE
    /\ UNCHANGED <<held, kind, db, session, created, coll, oids, self, fsid, entered>>

MongoSearch ==
    /\ kind = "mongo"
    /\ \E a \in {x \in SearchArgs("_id") : x.lib} :
         last' = Call("search", NoItems, a.kwargs, a.projection, FALSE, TRUE,
                      MongoRepository_search(coll, a.projection, a.kwargs))
    /\ calls' = <<>>
    /\ connected' = TRUE
    /\ UNCHANGED <<held, kind, db, session, created, coll, oids, self, fsid, entered>>

Next ==
    \/ SqlInit \/ SqlAdd \/ SqlAll \/ SqlCommit \/ SqlCount \/ SqlDelete
    \/ SqlDeleteAllRecords \/ SqlDispose \/ SqlExists \/ SqlGet \/ SqlSearch
    \/ MongoInit \/ MongoAdd \/ MongoAll \/ MongoCommit \/ MongoCount
    \/ MongoDelete \/ MongoDeleteAllRecords \/ MongoExists \/ MongoGet
    \/ MongoSearch

Spec == Init /\ [][Next]_vars

(***************************************************************************)
(* The life of an instance: construction with any arguments, the with      *)
(* form, dispose, the facade, and a new instance once the last one was     *)
(* disposed of.  In the facade's case `entered` and `created` are the      *)
(* facade's and the repository is its attribute foos.                      *)
(***************************************************************************)
Disposed == calls # <<>> /\ calls[Len(calls)] = "dispose"

Lifecall(op, kwargs, ret) ==
    Call(op, NoItems, kwargs, NoProjection, FALSE, TRUE, ret)

SqlNew ==
    /\ kind = "none" \/ (kind = "sql" /\ Disposed /\ ~entered)
    /\ \E a \in NewArgs : Construct(a)

SqlFacadeNew ==
    /\ kind = "none" \/ (kind = "sql" /\ Disposed /\ ~entered)
    /\ LET r == TestSQLFacade_init(db, 0, LTEST_CONN_STR)
       IN  /\ kind' = "sql"
           /\ session' = r.session
           /\ created' = r.created
           /\ self' = r.self
           /\ fsid' = r.fsid
           /\ last' = Lifecall("facade_init",
                               ("connection_string" :> LTEST_CONN_STR), r.ret)
    /\ entered' = FALSE
    /\ calls' = <<"__init__">>
    /\ UNCHANGED <<held, db, coll, oids, connected>>

SqlEnter ==
    /\ kind = "sql"
    /\ fsid = 0
    /\ ~entered
    /\ LET r == SQLRepository_enter(db, session, created, self)
       IN  /\ r.created <= MaxSessions
           /\ session' = r.session
           /\ created' = r.created
           /\ self' = r.self
           /\ last' = Lifecall("enter", EmptyMap, This)
    /\ entered' = TRUE
    /\ calls' = <<"__enter__", "__init__">>
    /\ UNCHANGED <<held, kind, db, coll, oids, fsid, connected>>

SqlExit ==
    /\ kind = "sql"
    /\ fsid = 0
    /\ entered
    /\ \E exc_type \in ExcTypes :
         LET r == SQLRepository_exit(db, session, exc_type)
         IN  /\ session' = r.session
             /\ calls' = r.calls
             /\ last' = Lifecall("exit", ("exc_type" :> exc_type), r.ret)
    /\ entered' = FALSE
    /\ UNCHANGED <<held, kind, db, created, coll, oids, self, fsid, connected>>

SqlFacadeEnter ==
    /\ kind = "sql"
    /\ fsid # 0
    /\ ~entered
    /\ LET r == SQLFacade_enter(db, created, LTEST_CONN_STR)
       IN  /\ r.created <= MaxSessions
           /\ session' = r.session
           /\ created' = r.created
           /\ self' = r.self
           /\ fsid' = r.fsid
           /\ last' = Lifecall("facade_enter", EmptyMap, This)
    /\ entered' = TRUE
    /\ calls' = <<"__enter__", "__init__">>
    /\ UNCHANGED <<held, kind, db, coll, oids, connected>>

SqlFacadeExit ==
    /\ kind = "sql"
    /\ fsid # 0
    /\ entered
    /\ \E exc_type \in ExcTypes :
         LET r == SQLFacade_exit(db, session, exc_type)
         IN  /\ session' = r.session
             /\ calls' = r.calls
             /\ last' = Lifecall("facade_exit", ("exc_type" :> exc_type), r.ret)
    /\ entered' = FALSE
    /\ UNCHANGED <<held, kind, db, created, coll, oids, self, fsid, connected>>

SqlFacadeCommit ==
    /\ kind = "sql"
    /\ fsid # 0
    /\ LET r == SQLFacade_commit(db, session)
       IN  /\ session' = r.session
           /\ db' = r.db
           /\ last' = Lifecall("facade_commit", EmptyMap, r.ret)
    /\ calls' = <<>>
    /\ UNCHANGED <<held, kind, created, coll, oids, self, fsid, entered, connected>>

MongoEnter ==
    /\ kind = "mongo"
    /\ ~entered
    /\ connected' = MongoRepository_enter(connected)
    /\ entered' = TRUE
    /\ calls' = <<"__enter__", "__init__">>
    /\ last' = Lifecall("enter", EmptyMap, This)
    /\ UNCHANGED <<held, kind, db, session, created, coll, oids, self, fsid>>

MongoExit ==
    /\ kind = "mongo"
    /\ entered
    /\ \E exc_type \in ExcTypes :
         LET r == MongoRepository_exit(connected, exc_type)
         IN  /\ connected' = r.connected
             /\ calls' = r.calls
             /\ last' = Lifecall("exit", ("exc_type" :> exc_type), r.ret)
    /\ entered' = FALSE
    /\ UNCHANGED <<held, kind, db, session, created, coll, oids, self, fsid>>

MongoDispose ==
    /\ kind = "mongo"
    /\ connected' = MongoRepository_dispose(connected)
    /\ calls' = <<"dispose">>
    /\ last' = Lifecall("dispose", EmptyMap, None)
    /\ UNCHANGED <<held, kind, db, session, created, coll, oids, self, fsid, entered>>

MongoFacadeNew ==
    /\ kind = "none"
    /\ kind' = "mongofacade"
    /\ LET r == MongoFacade_init(0)
       IN  /\ created' = r.created
           /\ connected' = r.connected
    /\ calls' = <<"__init__">>
    /\ last' = Lifecall("facade_init", EmptyMap, None)
    /\ UNCHANGED <<held, db, session, coll, oids, self, fsid, entered>>

MongoFacadeEnter ==
    /\ kind = "mongofacade"
    /\ ~entered
    /\ LET r == MongoFacade_enter(created)
       IN  /\ r.created <= MaxSessions
           /\ created' = r.created
           /\ connected' = r.connected
    /\ entered' = TRUE
    /\ calls' = <<"__enter__", "__init__">>
    /\ last' = Lifecall("facade_enter", EmptyMap, This)
    /\ UNCHANGED <<held, kind, db, session, coll, oids, self, fsid>>

MongoFacadeExit ==
    /\ kind = "mongofacade"
    /\ entered
    /\ \E exc_type \in ExcTypes :
         LET r == MongoFacade_exit(connected, exc_type)
         IN  /\ connected' = r.connected
             /\ calls' = r.calls
             /\ last' = Lifecall("facade_exit", ("exc_type" :> exc_type), r.ret)
    /\ entered' = FALSE
    /\ UNCHANGED <<held, kind, db, session, created, coll, oids, self, fsid>>

MongoDbFacadeNew ==
    /\ kind = "none"
    /\ kind' = "mongodbfacade"
    /\ connected' = MongoDbFacade_init(TRUE)
    /\ calls' = <<"__init__">>
    /\ last' = Lifecall("facade_init", EmptyMap, None)
    /\ UNCHANGED <<held, db, session, created, coll, oids, self, fsid, entered>>

MongoDbFacadeEnter ==
    /\ kind = "mongodbfacade"
    /\ ~entered
    /\ connected' = MongoDbFacade_enter(connected)
    /\ entered' = TRUE
    /\ calls' = <<"__enter__", "__init__">>
    /\ last' = Lifecall("facade_enter", EmptyMap, This)
    /\ UNCHANGED <<held, kind, db, session, created, coll, oids, self, fsid>>

MongoDbFacadeExit ==
    /\ kind = "mongodbfacade"
    /\ entered
    /\ \E exc_type \in ExcTypes :
         LET r == MongoDbFacade_exit(connected, exc_type)
         IN  /\ connected' = r.connected
             /\ calls' = r.calls
             /\ last' = Lifecall("facade_exit", ("exc_type" :> exc_type), r.ret)
    /\ entered' = FALSE
    /\ UNCHANGED <<held, kind, db, session, created, coll, oids, self, fsid>>

LifecycleNext ==
    \/ SqlNew \/ SqlFacadeNew \/ SqlEnter \/ SqlExit \/ SqlDispose
    \/ SqlFacadeEnter \/ SqlFacadeExit \/ SqlFacadeCommit
    \/ SqlAdd \/ SqlCommit \/ SqlExists
    \/ MongoInit \/ MongoEnter \/ MongoExit \/ MongoDispose
    \/ MongoAdd \/ MongoExists
    \/ MongoFacadeNew \/ MongoFacadeEnter \/ MongoFacadeExit
    \/ MongoDbFacadeNew \/ MongoDbFacadeEnter \/ MongoDbFacadeExit

Lifecycle == Init /\ [][LifecycleNext]_vars

(***************************************************************************)
(* The documents a caller keeps: a get whose result the caller holds on    *)
(* to, updates made with that dict or with another copy of a stored        *)
(* document, and the delete of the dict held.                              *)
(***************************************************************************)
MongoKeep ==
    /\ kind = "mongo"
    /\ \E k \in Keys :
         LET r == MongoRepository_get(coll, FALSE, NoProjection, ("_id" :> k))
         IN  /\ last' = Call("get", NoItems, ("_id" :> k), NoProjection, FALSE, TRUE, r)
             /\ held' = IF r = None THEN None ELSE [kind |-> "dict", doc |-> r.doc]
    /\ calls' = <<>>
    /\ connected' = TRUE
    /\ UNCHANGED <<kind, db, session, created, coll, oids, self, fsid, entered>>

MongoUpdate ==
    /\ kind = "mongo"
    /\ \E a \in UpdateArgs(coll, held), fails \in BOOLEAN :
         LET r == MongoRepository_update(coll, a.doc, fails)
         IN  /\ coll' = r.coll
             /\ held' = IF a.own THEN [kind |-> "dict", doc |-> r.doc] ELSE held
             /\ last' = [doc |-> r.doc]
                           @@ Call("update", OneItem(a.doc), EmptyMap, NoProjection,
                                   FALSE, TRUE, r.ret)
    /\ calls' = <<>>
    /\ connected' = TRUE
    /\ UNCHANGED <<kind, db, session, created, oids, self, fsid, entered>>
MongoDeleteHeld ==
    /\ kind = "mongo"
    /\ \E a \in HeldDeleteArgs(held) :
         LET r == MongoRepository_delete(coll, a.items, a.kwargs)
         IN  /\ coll' = r.coll
             /\ last' = Call("delete", a.items, a.kwargs, NoProjection, FALSE, TRUE,
                             r.ret)
    /\ calls' = <<>>
    /\ connected' = TRUE
    /\ UNCHANGED <<held, kind, db, session, created, oids, self, fsid, entered>>

DocumentsNext ==
    \/ MongoInit \/ MongoAdd \/ MongoKeep \/ MongoUpdate \/ MongoDeleteHeld
    \/ MongoExists

Documents == Init /\ [][DocumentsNext]_vars

(***************************************************************************)
(* Properties.                                                             *)
(***************************************************************************)

(* C1: in every reachable state and for every set of keyword filters,      *)
(* exists returns true iff search with the same filters yields at least    *)
(* one record (and raises what search raises).                             *)
ExistsIffSearchYields ==
    [][last'.op = "exists" =>
         LET found == IF kind = "sql"
                      THEN SQLRepository_search(db, session, NoProjection,
                                                last'.kwargs, TRUE).ret
                      ELSE MongoRepository_search(coll, NoProjection, last'.kwargs)
         IN  IF Returned(found)
             THEN last'.ret = (IF Len(found.items) >= 1 THEN True ELSE False)
             ELSE last'.ret = found]_vars

(* C1 witness: exists(name='d') returned true. *)
ExistsReturnedTrue ==
    /\ last.op = "exists"
    /\ last.kwargs = ("name" :> <<"d">>)
    /\ last.ret = True

(* C2: exists(key=k) is true immediately after add of a record with key k  *)
(* (here: a record the store can take, its key held by no other record),   *)
(* and false immediately after delete of that record, given as the record  *)
(* itself or as its key.                                                   *)
ExistsFollowsAddAndDelete ==
    /\ (/\ kind = "sql"
        /\ last.op = "add"
        /\ last.items.t = "one"
        /\ Flush(db, session).err = "")
       => SQLRepository_exists(db, session,
                               ("abbr" :> last.items.objs[1].abbr)).ret = True
    /\ (/\ kind = "sql"
        /\ last.op = "delete"
        /\ last.ret = None
        /\ last.items.t = "one"
        /\ \A i \in 1..Len(session.new) : session.new[i].abbr # last.items.objs[1].abbr
        /\ Flush(db, session).err = "")
       => SQLRepository_exists(db, session,
                               ("abbr" :> last.items.objs[1].abbr)).ret = False
    /\ (/\ kind = "mongo"
        /\ last.op = "add"
        /\ last.ret = None
        /\ last.items.t = "one"
        /\ "_id" \in DOMAIN last.items.objs[1])
       => MongoRepository_exists(coll, ("_id" :> last.items.objs[1]["_id"])) = True
    /\ (/\ kind = "sql"
        /\ last.op = "delete"
        /\ last.ret = None
        /\ ~ItemsTruthy(last.items)
        /\ Flush(db, session).err = "")
       => SQLRepository_exists(db, session, last.kwargs).ret = False
    /\ (/\ kind = "mongo"
        /\ last.op = "delete"
        /\ last.ret = None
        /\ last.items.t = "one"
        /\ "_id" \in DOMAIN last.items.objs[1])
       => MongoRepository_exists(coll, ("_id" :> last.items.objs[1]["_id"])) = False
    /\ (/\ kind = "mongo"
        /\ last.op = "delete"
        /\ last.ret = None
        /\ ~ItemsTruthy(last.items)
        /\ DOMAIN last.kwargs = {"_id"})
       => MongoRepository_exists(coll, last.kwargs) = False

(* C3: round trip: after add of a record r whose key no other record       *)
(* holds, get by r's key returns a record equal to r on every projected    *)
(* field (on all fields when no projection is given).                      *)
GetReturnsWhatWasAdded ==
    /\ (/\ kind = "sql"
        /\ last.op = "add"
        /\ last.items.t = "one"
        /\ Flush(db, session).err = "")
       => LET r == last.items.objs[1]
              whole == SQLRepository_get(db, session, TRUE, NoProjection,
                                         ("abbr" :> r.abbr), TRUE).ret
              part == SQLRepository_get(db, session, TRUE, ProjList(<<"name">>),
                                        ("abbr" :> r.abbr), TRUE).ret
          IN  /\ whole = [kind |-> "obj", row |-> r]
              /\ part = [kind |-> "scalar", v |-> r.name]
    /\ (/\ kind = "mongo"
        /\ last.op = "add"
        /\ last.ret = None
        /\ last.items.t = "one"
        /\ "_id" \in DOMAIN last.items.objs[1])
       => LET r == last.items.objs[1]
              whole == MongoRepository_get(coll, TRUE, NoProjection,
                                           ("_id" :> r["_id"]))
              part == MongoRepository_get(coll, TRUE, ProjList(<<"name">>),
                                          ("_id" :> r["_id"]))
          IN  /\ whole = [kind |-> "doc", doc |-> r]
              /\ part.kind = "doc"
              /\ part.doc["name"] = r["name"]

(* C4: for a key that matches no record, get with expect=true raises       *)
(* NotFoundError and get with expect=false returns None without raising,   *)
(* on both backends and with or without a projection.                      *)
GetOfAbsentKey ==
    [][(/\ last'.op = "get"
        /\ Len(last'.projection.attrs) <= 1
        /\ \/ /\ kind = "sql"
              /\ DOMAIN last'.kwargs = {"abbr"}
              /\ last'.kwargs["abbr"] \in Keys
              /\ Flush(db, session).err = ""
              /\ ~HasKey(Flush(db, session).session.txn, last'.kwargs["abbr"])
           \/ /\ kind = "mongo"
              /\ DOMAIN last'.kwargs = {"_id"}
              /\ ~HasId(coll, last'.kwargs["_id"]))
       => IF last'.expect
          THEN last'.ret.kind = "raise" /\ last'.ret.type = "NotFoundError"
          ELSE last'.ret = None]_vars

(* C5: every NotFoundError raised by get carries exactly the keyword       *)
(* filters of the failing call (pk) and the identifier of the table or     *)
(* collection that was searched (table), and raising it leaves the store   *)
(* contents unchanged.                                                     *)
NotFoundErrorCarriesCall ==
    [][(last'.ret.kind = "raise" /\ last'.ret.type = "NotFoundError")
       => /\ last'.op \in {"get", "delete"}
          /\ last'.ret.pk = last'.kwargs
          /\ last'.ret.table = (IF kind = "sql" THEN ClassType ELSE CollectionName)
          /\ db' = db
          /\ coll' = coll
          /\ Flush(db', session') = Flush(db, session)]_vars

(* C5 witness: get of an absent key raised NotFoundError while other       *)
(* records were stored.                                                    *)
NotFoundErrorWasRaised ==
    /\ last.op = "get"
    /\ last.ret.kind = "raise"
    /\ last.ret.type = "NotFoundError"
    /\ last.ret.pk = ("abbr" :> <<"A">>)
    /\ session.txn # {}

(* C6: in every reachable state and for every projection, search with no   *)
(* filters returns what all returns for the same projection: the same      *)
(* records in the same projected shape (or the same exception).            *)
SearchWithoutFiltersIsAll ==
    [][/\ last'.op = "all"
          => last'.ret =
               (IF kind = "sql"
                THEN SQLRepository_search(db, session, last'.projection, EmptyMap,
                                          last'.lib).ret
                ELSE MongoRepository_search(coll, last'.projection, EmptyMap))
       /\ (last'.op = "search" /\ last'.kwargs = EmptyMap)
          => last'.ret =
               (IF kind = "sql"
                THEN SQLRepository_all(db, session, last'.projection, last'.lib).ret
                ELSE MongoRepository_all(coll, last'.projection))]_vars

(* C6 witness: all(projection=['name']) returned two projected records. *)
AllReturnedProjectedRecords ==
    /\ kind = "sql"
    /\ last.op = "all"
    /\ last.projection = ProjList(<<"name">>)
    /\ last.ret.kind = "list"
    /\ Len(last.ret.items) = 2

(* C7: search(filters) returns exactly the stored records whose value for  *)
(* every supplied field equals the supplied value: no matching record is   *)
(* omitted and no other record is returned.                                *)
SearchReturnsExactMatches ==
    [][(last'.op = "search" /\ last'.projection = NoProjection)
       => LET kw == last'.kwargs
              Match(r) == \A a \in DOMAIN kw : a \in DOMAIN r /\ r[a] = kw[a]
              got == last'.ret
          IN  IF kind = "sql"
              THEN Flush(db, session).err = ""
                   => /\ got.kind = "list"
                      /\ {got.items[i] : i \in 1..Len(got.items)}
                           = {r \in Flush(db, session).session.txn : Match(r)}
              ELSE /\ got.kind = "list"
                   /\ got.items = SelectSeq(coll, Match)]_vars

(* C8: delete_all_records followed by count yields zero, and exists is     *)
(* false for every key.                                                    *)
DeleteAllRecordsEmptiesStore ==
    (last.op = "delete_all_records" /\ Returned(last.ret))
    => IF kind = "sql"
       THEN /\ SQLRepository_count(db, session).ret = [kind |-> "int", v |-> 0]
            /\ \A k \in Keys \cup OtherVals :
                 SQLRepository_exists(db, session, ("abbr" :> k)).ret = False
       ELSE /\ MongoRepository_count(coll) = [kind |-> "int", v |-> 0]
            /\ \A k \in Keys \cup OtherVals :
                 MongoRepository_exists(coll, ("_id" :> k)) = False

(* C9: after any sequence of add, delete, delete_all_records and commit,   *)
(* count() equals the number of records all() returns (and raises what     *)
(* all() raises), whatever filters earlier calls used.                     *)
CountIsCardinalityOfAll ==
    [][last'.op = "count"
       => LET every == IF kind = "sql"
                       THEN SQLRepository_all(db, session, NoProjection, TRUE).ret
                       ELSE MongoRepository_all(coll, NoProjection)
          IN  IF Returned(every)
              THEN last'.ret = [kind |-> "int", v |-> Len(every.items)]
              ELSE last'.ret = every]_vars

(* C9 witness: count returned 2 with one of the two records not committed. *)
CountReturnedTwo ==
    /\ kind = "sql"
    /\ last.op = "count"
    /\ last.ret = [kind |-> "int", v |-> 2]
    /\ Cardinality(db) = 1

(* C10: constructing an SQLRepository with neither a session nor a         *)
(* connection string raises ValueError, and the failed construction        *)
(* creates no session.                                                     *)
InitWithoutSessionOrConnectionString ==
    [][(/\ last'.op = "init"
        /\ DOMAIN last'.kwargs = {"connection_string", "session"}
        /\ last'.kwargs["connection_string"] = None
        /\ last'.kwargs["session"] = None)
       => /\ last'.ret = Raise("ValueError")
          /\ created' = created
          /\ session' = NoSession
          /\ kind' = "none"]_vars

(* C10 witness: a construction without either argument raised ValueError. *)
InitRaisedValueError ==
    /\ last.op = "init"
    /\ last.kwargs = ("connection_string" :> None) @@ ("session" :> None)
    /\ last.ret = Raise("ValueError")
    /\ created = 0

(***************************************************************************)
(* C11: constructing an SQLRepository returns normally exactly when one of *)
(* session and connection string is given and not the other: with both it  *)
(* is rejected; and a repository that was handed a session holds that      *)
(* session and no other.                                                   *)
(***************************************************************************)
InitWithExactlyOneOfSessionAndConnectionString ==
    [][(last'.op = "init" /\ DOMAIN last'.kwargs = {"connection_string", "session"})
          => LET given_cs == StrTruthy(last'.kwargs["connection_string"])
                 given_s  == last'.kwargs["session"] # None
             IN  /\ Returned(last'.ret) <=> (given_cs # given_s)
                 /\ (Returned(last'.ret) /\ given_s)
                       => self'.session = last'.kwargs["session"]]_vars

(***************************************************************************)
(* C12: delete with neither items nor filters (no items, an empty list of  *)
(* items, or an empty document) raises ValueError and changes nothing in   *)
(* the store, for both backends.                                           *)
(***************************************************************************)
DeleteWithoutItemsOrFilters ==
    [][(/\ last'.op = "delete"
        /\ ~ItemsTruthy(last'.items)
        /\ last'.kwargs = EmptyMap)
       => /\ last'.ret = Raise("ValueError")
          /\ db' = db
          /\ session' = session
          /\ coll' = coll]_vars

(* C12 witness: a delete with an empty list of items, on a session with    *)
(* pending work, raised ValueError.                                        *)
DeleteOfEmptyListRaised ==
    /\ kind = "sql"
    /\ last.op = "delete"
    /\ last.items = ItemList(<<>>)
    /\ last.kwargs = EmptyMap
    /\ last.ret = Raise("ValueError")
    /\ session.new # <<>>

MongoAddInsertsPayloadOrFields ==
    [][(kind = "mongo" /\ last'.op = "add")
       => LET items == last'.items
              kw == last'.kwargs
              docs == IF ItemsTruthy(items) THEN items.objs ELSE <<kw>>
              IsInsertOf(d, doc) ==
                  /\ DOMAIN d = DOMAIN doc \cup {"_id"}
                  /\ \A f \in DOMAIN doc : d[f] = doc[f]
          IN  IF ~ItemsTruthy(items) /\ kw = EmptyMap
              THEN last'.ret = Raise("ValueError") /\ coll' = coll
              ELSE last'.ret = None
                   => /\ Len(coll') = Len(coll) + Len(docs)
                      /\ SubSeq(coll', 1, Len(coll)) = coll
                      /\ \A i \in 1..Len(docs) :
                           IsInsertOf(coll'[Len(coll) + i], docs[i])]_vars

(* C14 witness: an add with only the keyword field name returned, and the  *)
(* last document of the collection is that field and a generated _id.      *)
MongoAddOfFieldsInserted ==
    /\ kind = "mongo"
    /\ last.op = "add"
    /\ last.items = NoItems
    /\ last.kwargs = ("name" :> <<"d">>)
    /\ last.ret = None
    /\ coll # <<>>
    /\ DOMAIN coll[Len(coll)] = {"name", "_id"}
    /\ coll[Len(coll)]["name"] = <<"d">>

(***************************************************************************)
(* C15: leaving the with block of a repository or of a facade calls        *)
(* dispose on it exactly once, whether the body ended normally or raised:  *)
(* the session is closed, or the client disconnected, by that step.        *)
(* (MongoDbFacade has no method of that name: its disposal is the close    *)
(* of its client.)                                                         *)
(***************************************************************************)
ExitCallsDisposeOnce ==
    [][(entered /\ ~entered')
       => /\ last'.op \in {"exit", "facade_exit"}
          /\ last'.kwargs["exc_type"] \in ExcTypes
          /\ Cardinality({i \in 1..Len(calls') :
                             calls'[i] = IF kind = "mongodbfacade" THEN "close"
                                         ELSE "dispose"}) = 1
          /\ IF kind = "sql"
             THEN session' = SessionClose(db, session)
             ELSE ~connected']_vars

(* C15 witness: the body of a repository's with block raised, over a table *)
(* that holds rows, and __exit__ called dispose: the session is closed.    *)
ExitAfterRaiseDisposed ==
    /\ kind = "sql"
    /\ last.op = "exit"
    /\ last.kwargs["exc_type"] = Str("Exception")
    /\ calls = <<"__exit__", "dispose">>
    /\ session = create_sql_session(db)
    /\ db # {}

(***************************************************************************)
(* C16: __enter__ runs the constructor again with the arguments the        *)
(* instance was made with and returns the instance itself: an instance     *)
(* made with connection parameters then holds a new open session or        *)
(* client, a repository made with a session still holds that session; and  *)
(* the repository the facade subclass attaches in its constructor is bound *)
(* to the session the facade holds after entry.                            *)
(***************************************************************************)
EnterReinitializes ==
    [][(~entered /\ entered')
       => /\ last'.op \in {"enter", "facade_enter"}
          /\ last'.ret = This
          /\ calls' = <<"__enter__", "__init__">>
          /\ kind' = kind
          /\ kind = "sql" /\ fsid = 0
               => /\ self'.connection_string = self.connection_string
                  /\ IF StrTruthy(self.connection_string)
                     THEN session' = create_sql_session(db)
                     ELSE session' = session /\ self'.session = self.session
          /\ kind = "sql" /\ fsid # 0
               => /\ session' = create_sql_session(db)
                  /\ fsid' = created'
                  /\ self'.session = SessionHandle(fsid')
          /\ kind = "mongofacade" => connected'
          /\ kind = "mongo" => connected' = connected]_vars

(* C16 witness: the facade was entered; it holds its second session and    *)
(* its repository foos is bound to that one.                               *)
FacadeEnteredWithReboundRepository ==
    /\ kind = "sql"
    /\ last.op = "facade_enter"
    /\ last.ret = This
    /\ entered
    /\ fsid = 2
    /\ self.session = SessionHandle(2)
    /\ session.active

(***************************************************************************)
(* C17: an instance that makes its own session or connection (a facade, or *)
(* a repository given a connection string) has created exactly one,        *)
(* whatever sequence of construction, entry, operations and exit it has    *)
(* been through.                                                           *)
(***************************************************************************)
OneSessionPerInstance ==
    (\/ kind = "mongofacade"
     \/ kind = "sql" /\ (fsid # 0 \/ StrTruthy(self.connection_string)))
    => created = 1

(***************************************************************************)
(* C18: a repository made with a session or database it was handed (the    *)
(* caller's, or the facade's) does not close it: its dispose() and the     *)
(* exit of its with block leave the session, pending work included, and    *)
(* the client's connection as they were.                                   *)
(***************************************************************************)
SharedSessionSurvivesDisposeAndExit ==
    [][(/\ last'.op \in {"dispose", "exit"}
        /\ \/ kind = "mongo"
           \/ kind = "sql" /\ ~StrTruthy(self.connection_string))
       => /\ session' = session
          /\ connected' = connected]_vars

(***************************************************************************)
(* C19: what was added and committed persists: the first call of a newly   *)
(* constructed repository or facade, made after the instance before it was *)
(* disposed of, finds every record of the table: exists(abbr=k) returns    *)
(* True for the key k of each committed record.                            *)
(***************************************************************************)
CommittedRecordsAreSeenByNewInstance ==
    [][(/\ kind = "sql"
        /\ calls = <<"__init__">>
        /\ last'.op = "exists"
        /\ DOMAIN last'.kwargs = {"abbr"}
        /\ HasKey(db, last'.kwargs["abbr"]))
       => last'.ret = True]_vars

(***************************************************************************)
(* C20: MongoRepository.commit does nothing: it returns None and leaves    *)
(* the collection, the ObjectIds handed out and the client's connection as *)
(* they were; and what add inserted is there at once, with no commit:      *)
(* count has grown by the number of documents, and exists, search and get  *)
(* with a document's fields as the filter find a document with them.       *)
(***************************************************************************)
MongoCommitIsNoOpAndAddIsImmediate ==
    [][/\ (kind = "mongo" /\ last'.op = "commit")
          => /\ last'.ret = None
             /\ coll' = coll
             /\ oids' = oids
             /\ connected' = connected
       /\ (kind = "mongo" /\ last'.op = "add" /\ last'.ret = None)
          => LET docs == IF ItemsTruthy(last'.items) THEN last'.items.objs
                         ELSE <<last'.kwargs>>
                 Has(d, doc) == \A f \in DOMAIN doc : f \in DOMAIN d /\ d[f] = doc[f]
             IN  /\ MongoRepository_count(coll') =
                        [kind |-> "int", v |-> Len(coll) + Len(docs)]
                 /\ \A i \in 1..Len(docs) :
                      LET found == MongoRepository_search(coll', NoProjection, docs[i])
                          got == MongoRepository_get(coll', TRUE, NoProjection, docs[i])
                      IN  /\ MongoRepository_exists(coll', docs[i]) = True
                          /\ found.items # <<>>
                          /\ \A j \in 1..Len(found.items) : Has(found.items[j], docs[i])
                          /\ got.kind = "doc"
                          /\ Has(got.doc, docs[i])]_vars

(* C20 witness: commit was called on a repository whose collection holds   *)
(* documents, and the client is still connected.                           *)
MongoCommitWasCalled ==
    /\ kind = "mongo"
    /\ last.op = "commit"
    /\ last.ret = None
    /\ coll # <<>>
    /\ connected

(***************************************************************************)
(* C21: an SQLRepository.get with a projection that finds its record       *)
(* returns the one projected field's value as a scalar when the projection *)
(* names one field, and a tuple of the projected fields' values, in the    *)
(* order of the projection, when it names two or more.                     *)
(***************************************************************************)
GetWithProjectionReturnsScalarOrTuple ==
    [][(/\ kind = "sql"
        /\ last'.op = "get"
        /\ last'.projection.t = "list"
        /\ last'.projection.attrs # <<>>
        /\ Returned(last'.ret)
        /\ last'.ret # None
        /\ "abbr" \in DOMAIN last'.kwargs
        /\ HasKey(session'.txn, last'.kwargs["abbr"]))
       => LET P == last'.projection.attrs
              row == RowOf(session'.txn, last'.kwargs["abbr"])
          IN  IF Len(P) = 1
              THEN last'.ret = [kind |-> "scalar", v |-> row[P[1]]]
              ELSE last'.ret = [kind |-> "tuple",
                                v |-> [i \in 1..Len(P) |-> row[P[i]]]]]_vars

(***************************************************************************)
(* C22: delete with keyword filters and no items removes the one record    *)
(* the filters match: exactly one record when any matches (the document    *)
(* store takes one of several), none otherwise, and every other record is  *)
(* left as it was.  For the SQL repository the records are those the       *)
(* session sees once its pending work is flushed.                          *)
(***************************************************************************)
DeleteByFiltersRemovesTheOneMatch ==
    [][(/\ last'.op = "delete"
        /\ ~ItemsTruthy(last'.items)
        /\ last'.kwargs # EmptyMap)
       => LET kw == last'.kwargs
              Has(d, f) == \A a \in DOMAIN f : a \in DOMAIN d /\ d[a] = f[a]
          IN  /\ kind = "mongo"
                 => IF \E i \in 1..Len(coll) : Has(coll[i], kw)
                    THEN \E i \in 1..Len(coll) :
                           /\ Has(coll[i], kw)
                           /\ coll' = SubSeq(coll, 1, i - 1)
                                         \o SubSeq(coll, i + 1, Len(coll))
                    ELSE coll' = coll
              /\ (/\ kind = "sql"
                  /\ "abbr" \in DOMAIN kw
                  /\ Flush(db, session).err = "")
                 => LET before == Flush(db, session).session.txn
                        after == Flush(db, session').session.txn
                        hits == {r \in before : Has(r, kw)}
                    IN  /\ db' = db
                        /\ Flush(db, session').err = ""
                        /\ IF hits = {} THEN after = before
                           ELSE \E r \in hits : after = before \ {r}]_vars

(***************************************************************************)
(* C23: with a non-empty projection list P, every record that all, search  *)
(* or get returns shows the fields named in P and no others: a document    *)
(* of the document repository has exactly the keys of P, and all and       *)
(* search of the SQL repository return tuples of Len(P) values.            *)
(***************************************************************************)
ProjectionExposesExactlyItsFields ==
    [][(/\ last'.op \in {"all", "search", "get"}
        /\ last'.projection.t = "list"
        /\ last'.projection.attrs # <<>>
        /\ Returned(last'.ret)
        /\ last'.ret # None)
       => LET P == last'.projection.attrs
              fields == {P[i] : i \in 1..Len(P)}
              r == last'.ret
          IN  /\ (kind = "mongo" /\ r.kind = "list")
                 => \A i \in 1..Len(r.items) : DOMAIN r.items[i] = fields
              /\ (kind = "mongo" /\ r.kind = "doc")
                 => DOMAIN r.doc = fields
              /\ (kind = "sql" /\ r.kind = "list")
                 => \A i \in 1..Len(r.items) : DOMAIN r.items[i] = 1..Len(P)]_vars

(***************************************************************************)
(* C24: when MongoRepository.update(doc) returns for a doc whose _id is    *)
(* stored, get(_id=doc['_id']) returns a record with that _id in which     *)
(* every other field of doc has doc's value; the caller's doc is as it was *)
(* handed over, _id included; and no other record has changed.             *)
(***************************************************************************)
UpdateSetsTheFieldsOfTheStoredRecord ==
    [][(/\ kind = "mongo"
        /\ last'.op = "update"
        /\ last'.ret = None
        /\ HasId(coll, last'.items.objs[1]["_id"]))
       => LET d == last'.items.objs[1]
              got == MongoRepository_get(coll', TRUE, NoProjection,
                                         ("_id" :> d["_id"]))
          IN  /\ got.kind = "doc"
              /\ got.doc["_id"] = d["_id"]
              /\ \A f \in DOMAIN d : f \in DOMAIN got.doc /\ got.doc[f] = d[f]
              /\ last'.doc = d
              /\ Len(coll') = Len(coll)
              /\ \A i \in 1..Len(coll) :
                   IF coll[i]["_id"] = d["_id"]
                   THEN coll'[i]["_id"] = d["_id"]
                   ELSE coll'[i] = coll[i]]_vars

(* C24 witness: an update of the stored document A returned, in a          *)
(* collection that holds another document as well.                         *)
UpdateOfStoredDocumentReturned ==
    /\ kind = "mongo"
    /\ last.op = "update"
    /\ last.ret = None
    /\ last.items.objs[1]["_id"] = <<"A">>
    /\ \E i \in 1..Len(coll) : coll[i] = last.items.objs[1]
    /\ \E i \in 1..Len(coll) : coll[i]["_id"] # <<"A">>

(***************************************************************************)
(* C25: when the body of a with block raised, the exit of the facade or    *)
(* repository disposes of it (session closed, client disconnected) and     *)
(* does not suppress the exception: __exit__ returns no true value, so the *)
(* exception goes on to the caller.                                        *)
(***************************************************************************)
ExitNeverSuppresses ==
    [][(entered /\ ~entered' /\ last'.kwargs["exc_type"] # None)
       => /\ ~Suppresses(last'.ret)
          /\ Len(calls') = 2
          /\ calls'[1] = "__exit__"
          /\ calls'[2] \in {"dispose", "close"}
          /\ IF kind = "sql" THEN session' = SessionClose(db, session)
             ELSE ~connected']_vars

(* C25 witness: the body of a MongoDbFacade's with block raised; __exit__  *)
(* closed the client and returned None.                                    *)
FacadeExitAfterRaiseReturnedNone ==
    /\ kind = "mongodbfacade"
    /\ last.op = "facade_exit"
    /\ last.kwargs["exc_type"] = Str("Exception")
    /\ last.ret = None
    /\ ~connected
    /\ ~entered

(***************************************************************************)
(* C26: SQLRepository.delete with keyword filters that hold the primary    *)
(* key and match no record raises NotFoundError and deletes nothing: the   *)
(* table is unchanged and so is what the session sees and has pending      *)
(* (its pending objects may have been flushed by the query, they are not   *)
(* committed and none is lost).                                            *)
(***************************************************************************)
DeleteOfAbsentRecordRaisesNotFound ==
    [][(/\ kind = "sql"
        /\ last'.op = "delete"
        /\ ~ItemsTruthy(last'.items)
        /\ "abbr" \in DOMAIN last'.kwargs
        /\ Flush(db, session).err = ""
        /\ \A r \in Flush(db, session).session.txn :
              \E a \in DOMAIN last'.kwargs : r[a] # last'.kwargs[a])
       => /\ last'.ret = NotFoundError(last'.kwargs, ClassType)
          /\ db' = db
          /\ session' \in {session, Flush(db, session).session}]_vars

(***************************************************************************)
(* C27: delete with both items and keyword filters deletes the items and   *)
(* nothing else: the outcome is that of session.delete (delete_one) for    *)
(* each item in turn; the filters are not looked at, not even for their    *)
(* primary keys, and no record is removed on their account.                *)
(***************************************************************************)
DeleteWithItemsIgnoresFilters ==
    [][(/\ last'.op = "delete"
        /\ ItemsTruthy(last'.items)
        /\ last'.kwargs # EmptyMap)
       => /\ kind = "sql"
             => LET d == DeleteEach(session, last'.items.objs)
                IN  /\ last'.ret = IF d.err # "" THEN Raise(d.err) ELSE None
                    /\ session' = d.session
                    /\ db' = db
          /\ kind = "mongo"
             => /\ last'.ret = None
                /\ coll' = DeleteEachDoc(coll, last'.items.objs)]_vars

(* C27 witness: the object A was deleted together with filters that lack   *)
(* the primary key; the call returned and A alone is marked as deleted.    *)
DeleteOfItemWithFiltersReturned ==
    /\ kind = "sql"
    /\ last.op = "delete"
    /\ last.items = OneItem([abbr |-> <<"A">>, persistent |-> TRUE])
    /\ last.kwargs = ("name" :> <<"d">>)
    /\ last.ret = None
    /\ session.deleted = {<<"A">>}

(***************************************************************************)
(* C28: MongoRepository.add of a list inserts the items one at a time, in  *)
(* the order of the list, and is not atomic: when the insert of the i-th   *)
(* item fails (its _id is stored already, or is that of an earlier item)   *)
(* the driver's error is raised, the items before it stay inserted and the *)
(* items after it are not inserted.                                        *)
(***************************************************************************)
AddOfListStopsAtFirstFailure ==
    [][(/\ kind = "mongo"
        /\ last'.op = "add"
        /\ last'.items.t = "list"
        /\ last'.items.objs # <<>>)
       => LET docs == last'.items.objs
              Dup(j) == /\ "_id" \in DOMAIN docs[j]
                        /\ \/ HasId(coll, docs[j]["_id"])
                           \/ \E h \in 1..(j - 1) :
                                /\ "_id" \in DOMAIN docs[h]
                                /\ docs[h]["_id"] = docs[j]["_id"]
              failing == {j \in 1..Len(docs) : Dup(j)}
              done == IF failing = {} THEN Len(docs)
                      ELSE (CHOOSE j \in failing : \A h \in failing : j <= h) - 1
          IN  /\ last'.ret = IF failing = {} THEN None
                             ELSE Raise("DuplicateKeyError")
              /\ Len(coll') = Len(coll) + done
              /\ SubSeq(coll', 1, Len(coll)) = coll
              /\ \A h \in 1..done :
                   \A f \in DOMAIN docs[h] :
                      /\ f \in DOMAIN coll'[Len(coll) + h]
                      /\ coll'[Len(coll) + h][f] = docs[h][f]]_vars

(* C28 witness: an add of two documents raised DuplicateKeyError on the    *)
(* second, whose _id was stored already, and the first is in the           *)
(* collection.                                                             *)
AddOfListFailedOnSecondItem ==
    /\ kind = "mongo"
    /\ last.op = "add"
    /\ last.items.t = "list"
    /\ Len(last.items.objs) = 2
    /\ last.ret = Raise("DuplicateKeyError")
    /\ Len(coll) = 2
    /\ "_id" \in DOMAIN last.items.objs[1]
    /\ coll[2] = last.items.objs[1]
    /\ coll[1]["_id"] = last.items.objs[2]["_id"]
    /\ coll[1]["_id"] # coll[2]["_id"]

(***************************************************************************)
(* C29: on every way out of MongoRepository.update(doc), returning or      *)
(* raising, the caller's doc still has its _id key with the value it had   *)
(* when it was handed over.                                                *)
(***************************************************************************)
UpdateLeavesCallersIdInPlace ==
    [][(/\ kind = "mongo"
        /\ last'.op = "update"
        /\ "_id" \in DOMAIN last'.items.objs[1])
       => /\ "_id" \in DOMAIN last'.doc
          /\ last'.doc["_id"] = last'.items.objs[1]["_id"]]_vars

(***************************************************************************)
(* C30: for a document d the caller holds from a get, whatever updates the *)
(* stored record has had since, delete(d), or delete of a list holding d,  *)
(* removes the stored record with d's _id: exists(_id=d['_id']) is False   *)
(* afterwards.                                                             *)
(***************************************************************************)
DeleteOfHeldDocumentRemovesItsRecord ==
    [][(/\ kind = "mongo"
        /\ last'.op = "delete"
        /\ held # None
        /\ "_id" \in DOMAIN held.doc
        /\ last'.items \in {OneItem(held.doc), ItemList(<<held.doc>>)}
        /\ HasId(coll, held.doc["_id"]))
       => /\ ~HasId(coll', held.doc["_id"])
          /\ MongoRepository_exists(coll', ("_id" :> held.doc["_id"])) = False]_vars

====
